---- MODULE Spec2Model ----
(***************************************************************************)
(* Pool membership and lifecycle engine of the BITS-H Pooler (src/pool.py, *)
(* src/poolpreset.py), SQLite backend.                                     *)
(*                                                                         *)
(* The store is the SQLite tables pools, members and messages.  Every      *)
(* engine function is split at its database statements: a SELECT runs in   *)
(* autocommit mode, and the writes of one function form one transaction    *)
(* that commits at the end of the "with get_conn()" block.  Sessions are   *)
(* the concurrently served Streamlit sessions; the identity a session acts *)
(* for is an input of each call.  The clock counts minutes; a pool id, a   *)
(* created_at and a datetime.now() read are all readings of that clock.    *)
(***************************************************************************)
EXTENDS Integers, FiniteSets, Sequences, TLC

\* ------------------------------------------------------------ constants
COOLDOWN_MINUTES == 15
SEATS_MIN == 1
SEATS_MAX == 10
\* the time filter of the list keeps departures within 900 seconds of the target
TIME_WINDOW == 15

\* ------------------------------------------------------------ bounds
NumSessions == 3
MaxTime == 16
MaxPools == 1
MaxInFlight == 2
MaxMessages == 2
MaxListed == 3

Sessions == 1..NumSessions
\* the signed-in identities (user["email"])
EmailList == <<"a", "b", "c">>
Emails == {EmailList[i] : i \in DOMAIN EmailList}
\* the identities that host pools, and the ones that act where calls of every
\* kind interleave
TwoEmails == {EmailList[1], EmailList[2]}
\* the identity that joins from session s in the join race
UserOf(s) == EmailList[((s - 1) % 3) + 1]
\* an id no pool ever gets (pool ids are clock readings, at most MaxTime)
MissingId == MaxTime + 1
\* seats offered to the create form: the ends of SEATS_MIN..SEATS_MAX
SeatInputs == {SEATS_MIN, SEATS_MAX}
\* how far the clock moves between two readings: less than the cooldown,
\* the cooldown exactly, and one minute more
TickSteps == {COOLDOWN_MINUTES - 5, COOLDOWN_MINUTES, COOLDOWN_MINUTES + 1}
\* departure times entered in the create form, relative to the clock:
\* a minute ago, this minute, a quarter of an hour ahead
WhenInputs(t) == {t - 1, t, t + 15}
\* destination picked in the create form: none, a plain place, an airport by its
\* name, an airport by its address
DestInputs == {"none", "plain", "airport", "airport_addr"}
\* pickup text entered in the create form
PickupInputs == {"", " ", "gate"}
\* text typed into the chat form
TextInputs == {"", " ", "hi"}
\* the limit list_messages is called with
LimitInputs == 1..MaxMessages

VARIABLES
    now,      \* the wall clock, datetime.now(), in minutes
    pools,    \* table pools: set of rows [id, when_iso, seats, host_email, created_at]
    members,  \* table members: function row <<pool_id, email>> -> number of copies
    pc,       \* pc[s]: where session s is inside an engine call
    arg,      \* arg[s]: arguments and locals of the call session s is inside
    last,     \* <<function, outcome>> of the call that returned most recently
    messages, \* table messages (poolpreset.py): rows in the order they were inserted
    user      \* user[s]: st.session_state.user of session s, NoUser while signed out

vars == <<now, pools, members, pc, arg, last, messages, user>>

\* ------------------------------------------------------------ tables
\* the ids of the rows of table pools
PoolIds(ps) == {p.id : p \in ps}

\* SELECT ... FROM pools WHERE id = pid
PoolRows(ps, pid) == {p \in ps : p.id = pid}

\* the rows of table members whose pool_id is pid
MemberRows(m, pid) == {r \in DOMAIN m : r[1] = pid}

RECURSIVE SumCopies(_, _)
SumCopies(m, rows) ==
    IF rows = {} THEN 0
    ELSE LET r == CHOOSE x \in rows : TRUE
         IN m[r] + SumCopies(m, rows \ {r})

\* SELECT COUNT(*) FROM members WHERE pool_id = pid
get_members_count(m, pid) == SumCopies(m, MemberRows(m, pid))

\* mutant: the already-joined check never finds the row
is_user_member_Never(m, pid, e) == FALSE

\* SELECT 1 FROM members WHERE pool_id = pid AND email = e
is_user_member(m, pid, e) == <<pid, e>> \in DOMAIN m

\* mutant: the members table declared without UNIQUE(pool_id, email)
UniqueViolation_NoIndex(m, row) == FALSE

\* UNIQUE(pool_id, email) of table members: does inserting row conflict
UniqueViolation(m, row) == row \in DOMAIN m

\* one more copy of row in table members
InsertRow(m, row) ==
    [r \in DOMAIN m \cup {row} |->
        IF r = row THEN (IF r \in DOMAIN m THEN m[r] ELSE 0) + 1 ELSE m[r]]

\* mutant: add_pool without the host's membership row
InsertOrIgnore_Skipped(m, row) == m

\* INSERT OR IGNORE INTO members: a conflicting row is dropped without an error
InsertOrIgnore(m, row) == IF UniqueViolation(m, row) THEN m ELSE InsertRow(m, row)

\* mutant: DELETE FROM members WHERE pool_id = pid, the email forgotten
DeleteMember_WholePool(m, pid, e) == [r \in {x \in DOMAIN m : x[1] # pid} |-> m[r]]

\* DELETE FROM members WHERE pool_id = pid AND email = e
DeleteMember(m, pid, e) == [r \in DOMAIN m \ {<<pid, e>>} |-> m[r]]

\* DELETE FROM members WHERE pool_id IN ids
DeleteMembersOf(m, ids) == [r \in {x \in DOMAIN m : x[1] \notin ids} |-> m[r]]

\* DELETE FROM pools WHERE id IN ids
DeletePools(ps, ids) == {p \in ps : p.id \notin ids}

EmptyMembers == [r \in {} |-> 0]

\* ------------------------------------------------------------ spam guard
\* mutant: the window compared with > instead of >=
can_host_create_Strict(ps, email, t) ==
    ~\E p \in ps : p.host_email = email /\ p.created_at > t - COOLDOWN_MINUTES

\* can_host_create(email) evaluated at clock reading t
can_host_create(ps, email, t) ==
    ~\E p \in ps : p.host_email = email /\ p.created_at >= t - COOLDOWN_MINUTES

\* ------------------------------------------------------------ calls
NoArg ==
    [email |-> "", pool_id |-> MissingId, when |-> 0, seats |-> 0, ids |-> {},
     limit |-> 0, text |-> "", pools |-> <<>>, filter |-> FALSE, target |-> {},
     fails |-> FALSE, target_dt |-> 0]

\* st.session_state.user = None
NoUser == [name |-> <<>>, email |-> <<>>]

Idle(s) == pc[s] = "idle"
AllIdle == \A s \in Sessions : Idle(s)
\* the number of calls that are running
InFlight == Cardinality({s \in Sessions : ~Idle(s)})
\* a new call is served by the free session of lowest number (sessions are alike)
Serves(s) == Idle(s) /\ \A r \in Sessions : r < s => ~Idle(r)

\* session s returns from its call with the given outcome
Return(s, fn, outcome) ==
    /\ pc' = [pc EXCEPT ![s] = "idle"]
    /\ arg' = [arg EXCEPT ![s] = NoArg]
    /\ last' = <<fn, outcome>>

\* session s moves on to statement label l with locals a
Goto(s, l, a) ==
    /\ pc' = [pc EXCEPT ![s] = l]
    /\ arg' = [arg EXCEPT ![s] = a]
    /\ last' = last

Init ==
    /\ now = 0
    /\ pools = {}
    /\ members = EmptyMembers
    /\ pc = [s \in Sessions |-> "idle"]
    /\ arg = [s \in Sessions |-> NoArg]
    /\ last = <<"none", "none">>
    /\ messages = <<>>
    /\ user = [s \in Sessions |-> NoUser]

\* the clock advances by d minutes
Tick(d) ==
    /\ now + d <= MaxTime
    /\ now' = now + d
    /\ UNCHANGED <<pools, members, pc, arg, last, messages, user>>

\* ------------------------------------------------------------ create_pool_ui
\* str.strip() on the pickup texts of PickupInputs
Strip(text) == IF text = " " THEN "" ELSE text

\* name and formatted address of the places of DestInputs, letter by letter:
\* "JBS" at "Port Rd", "RGIA Airport", and "RGIA" at "AIRPORT Rd"
Places ==
    [plain |-> [name |-> <<"J", "B", "S">>,
                addr |-> <<"P", "o", "r", "t", " ", "R", "d">>],
     airport |-> [name |-> <<"R", "G", "I", "A", " ", "A", "i", "r", "p", "o", "r", "t">>,
                  addr |-> <<>>],
     airport_addr |-> [name |-> <<"R", "G", "I", "A">>,
                       addr |-> <<"A", "I", "R", "P", "O", "R", "T", " ", "R", "d">>]]

\* mutant: str.lower() left out, the letters compared as they are
LowerChar_Same(c) == c

\* str.lower() on one letter of the names of Places
LowerChar(c) ==
    CASE c = "A" -> "a" [] c = "B" -> "b" [] c = "D" -> "d" [] c = "G" -> "g"
      [] c = "I" -> "i" [] c = "J" -> "j" [] c = "O" -> "o" [] c = "P" -> "p"
      [] c = "R" -> "r" [] c = "S" -> "s" [] c = "T" -> "t" [] OTHER -> c

\* str.lower()
Lower(text) == [i \in DOMAIN text |-> LowerChar(text[i])]

\* text.find(word) != -1
Found(text, word) ==
    \E i \in 1..(Len(text) - Len(word) + 1) :
        SubSeq(text, i, i + Len(word) - 1) = word

\* the airport heuristic of create_pool_ui on a place
IsAirport(place) ==
    LET word == <<"a", "i", "r", "p", "o", "r", "t">>
    IN Found(Lower(place.name), word) \/ Found(Lower(place.addr), word)

\* the destinations of DestInputs the heuristic takes for an airport
AirportDests == {d \in DOMAIN Places : IsAirport(Places[d])}

\* mutant: the spam guard consulted before the other checks
CreateVerdict_CooldownFirst(ps, email, dest, when, pickup, t) ==
    IF ~can_host_create(ps, email, t)
        THEN "You can only create one pool every 15 minutes to prevent spam."
    ELSE IF dest = "none" THEN "Please search and select a destination."
    ELSE IF when < t THEN "Please pick a future time."
    ELSE IF dest \in AirportDests /\ Strip(pickup) = ""
        THEN "For airport rides, please enter a pickup point."
    ELSE "ok"

\* the "Create Pool" button of create_pool_ui: the first check that fails, else "ok"
CreateVerdict(ps, email, dest, when, pickup, t) ==
    IF dest = "none" THEN "Please search and select a destination."
    ELSE IF when < t THEN "Please pick a future time."
    ELSE IF dest \in AirportDests /\ Strip(pickup) = ""
        THEN "For airport rides, please enter a pickup point."
    ELSE IF ~can_host_create(ps, email, t)
        THEN "You can only create one pool every 15 minutes to prevent spam."
    ELSE "ok"

\* creations that passed validation and have not inserted yet
CreatesInFlight == Cardinality({s \in Sessions : pc[s] = "add_pool"})

\* mutant: the host's membership row is written before the request is validated
CreateSubmit_WriteFirst(s, who) ==
    /\ Idle(s)
    /\ \E email \in who, dest \in DestInputs, when \in WhenInputs(now),
          pickup \in PickupInputs, seats \in SeatInputs :
        LET verdict == CreateVerdict(pools, email, dest, when, pickup, now)
        IN IF verdict = "ok"
           THEN /\ Cardinality(pools) + CreatesInFlight < MaxPools
                /\ members' = members
                /\ Goto(s, "add_pool",
                        [NoArg EXCEPT !.email = email, !.when = when, !.seats = seats])
           ELSE /\ members' = InsertOrIgnore(members, <<now, email>>)
                /\ Return(s, "create_pool_ui", verdict)
    /\ UNCHANGED <<now, pools, messages, user>>

\* create_pool_ui up to the call of add_pool: validation and spam guard
\* (a request that passes is taken only while the store has room for its pool)
CreateSubmit(s, who) ==
    /\ Idle(s)
    /\ \E email \in who, dest \in DestInputs, when \in WhenInputs(now),
          pickup \in PickupInputs, seats \in SeatInputs :
        LET verdict == CreateVerdict(pools, email, dest, when, pickup, now)
        IN IF verdict = "ok"
           THEN /\ Cardinality(pools) + CreatesInFlight < MaxPools
                /\ Goto(s, "add_pool",
                        [NoArg EXCEPT !.email = email, !.when = when, !.seats = seats])
           ELSE Return(s, "create_pool_ui", verdict)
    /\ UNCHANGED <<now, pools, members, messages, user>>

\* create_pool_ui up to the call of add_pool, for hosts who submit at the same
\* instant: a request is taken while fewer than MaxInFlight creations are running,
\* from a host who has none running
CreateSubmitAtOnce(s, who) ==
    /\ Idle(s)
    /\ CreatesInFlight < MaxInFlight
    /\ \E email \in who \ {arg[r].email : r \in Sessions},
          dest \in DestInputs, when \in WhenInputs(now),
          pickup \in PickupInputs, seats \in SeatInputs :
        LET verdict == CreateVerdict(pools, email, dest, when, pickup, now)
        IN IF verdict = "ok"
           THEN Goto(s, "add_pool",
                     [NoArg EXCEPT !.email = email, !.when = when, !.seats = seats])
           ELSE Return(s, "create_pool_ui", verdict)
    /\ UNCHANGED <<now, pools, members, messages, user>>

\* create_pool_ui up to the call of add_pool, for requests that overlap whoever the
\* host is: a request is taken while fewer than MaxInFlight creations are running,
\* also from a host whose earlier request has not inserted yet
CreateSubmitOverlap(s, who) ==
    /\ Idle(s)
    /\ CreatesInFlight < MaxInFlight
    /\ \E email \in who, dest \in DestInputs, when \in WhenInputs(now),
          pickup \in PickupInputs, seats \in SeatInputs :
        LET verdict == CreateVerdict(pools, email, dest, when, pickup, now)
        IN IF verdict = "ok"
           THEN Goto(s, "add_pool",
                     [NoArg EXCEPT !.email = email, !.when = when, !.seats = seats])
           ELSE Return(s, "create_pool_ui", verdict)
    /\ UNCHANGED <<now, pools, members, messages, user>>

\* the "Create Pool" button of poolpreset.py: the destination comes from the fixed
\* catalog, and a pickup point is asked for whatever the destination
CreateVerdictPreset(ps, email, when, pickup, t) ==
    IF when < t THEN "Please pick a future time."
    ELSE IF Strip(pickup) = "" THEN "Please select or enter a pickup point."
    ELSE IF ~can_host_create(ps, email, t)
        THEN "You can only create one pool every 15 minutes to prevent spam."
    ELSE "ok"

\* create_pool_ui of poolpreset.py up to the call of add_pool
PresetCreateSubmit(s, who) ==
    /\ Idle(s)
    /\ \E email \in who, when \in WhenInputs(now),
          pickup \in PickupInputs, seats \in SeatInputs :
        LET verdict == CreateVerdictPreset(pools, email, when, pickup, now)
        IN IF verdict = "ok"
           THEN /\ Cardinality(pools) + CreatesInFlight < MaxPools
                /\ Goto(s, "add_pool",
                        [NoArg EXCEPT !.email = email, !.when = when, !.seats = seats])
           ELSE Return(s, "create_pool_ui", verdict)
    /\ UNCHANGED <<now, pools, members, messages, user>>

\* mutant: the pool row built with one seat more than requested
NewPool_ExtraSeat(a, t) ==
    [id |-> t, when_iso |-> a.when, seats |-> a.seats + 1,
     host_email |-> a.email, created_at |-> t]

\* the pool row create_pool_ui builds at clock reading t
NewPool(a, t) ==
    [id |-> t, when_iso |-> a.when, seats |-> a.seats,
     host_email |-> a.email, created_at |-> t]

\* add_pool: INSERT INTO pools and INSERT OR IGNORE INTO members, one transaction
add_pool(s) ==
    /\ pc[s] = "add_pool"
    /\ LET p == NewPool(arg[s], now)
           row == <<p.id, p.host_email>>
       IN IF p.id \in PoolIds(pools)
          THEN \* PRIMARY KEY conflict: sqlite3.IntegrityError, nothing is written
               /\ UNCHANGED <<pools, members>>
               /\ Return(s, "create_pool_ui", "IntegrityError")
          ELSE /\ pools' = pools \cup {p}
               /\ members' = InsertOrIgnore(members, row)
               /\ Return(s, "create_pool_ui", "Pool created!")
    /\ UNCHANGED <<now, messages, user>>

\* ------------------------------------------------------------ join_pool
\* pool ids a caller can name: those of the tables, and one that never existed
PoolIdInputs == PoolIds(pools) \cup {r[1] : r \in DOMAIN members} \cup {MissingId}

\* join_pool(pool_id, name, email) is called
JoinCall(s, who) ==
    /\ Idle(s)
    /\ \E email \in who, pid \in PoolIdInputs :
        Goto(s, "join_check", [NoArg EXCEPT !.email = email, !.pool_id = pid])
    /\ UNCHANGED <<now, pools, members, messages, user>>

\* join_pool: SELECT 1 FROM members (already joined?)
JoinCheck(s) ==
    /\ pc[s] = "join_check"
    /\ IF is_user_member(members, arg[s].pool_id, arg[s].email)
       THEN Return(s, "join_pool", "Already joined")
       ELSE Goto(s, "join_read_pool", arg[s])
    /\ UNCHANGED <<now, pools, members, messages, user>>

\* mutant: the ride-time check dropped
RidePassed_Never(when_iso, t) == FALSE

\* mutant: a ride leaving at this very reading of the clock counts as passed
RidePassed_Inclusive(when_iso, t) == when_iso <= t

\* join_pool: if datetime.fromisoformat(when_iso) < datetime.now()
RidePassed(when_iso, t) == when_iso < t

\* join_pool: SELECT seats, when_iso FROM pools, and the ride-time check
JoinReadPool(s) ==
    /\ pc[s] = "join_read_pool"
    /\ LET rows == PoolRows(pools, arg[s].pool_id)
       IN IF rows = {}
          THEN Return(s, "join_pool", "Pool not found")
          ELSE LET row == CHOOSE p \in rows : TRUE
               IN IF RidePassed(row.when_iso, now)
                  THEN Return(s, "join_pool", "Ride time has passed")
                  ELSE Goto(s, "join_count", [arg[s] EXCEPT !.seats = row.seats])
    /\ UNCHANGED <<now, pools, members, messages, user>>

\* mutant: the capacity check dropped
PoolIsFull_Never(count, seats) == FALSE

\* mutant: the capacity check off by one
PoolIsFull_OffByOne(count, seats) == count > seats

\* join_pool: if count >= seats
PoolIsFull(count, seats) == count >= seats

\* join_pool: SELECT COUNT(*) FROM members, and the capacity check
JoinCount(s) ==
    /\ pc[s] = "join_count"
    /\ IF PoolIsFull(get_members_count(members, arg[s].pool_id), arg[s].seats)
       THEN Return(s, "join_pool", "Pool is full")
       ELSE Goto(s, "join_insert", [arg[s] EXCEPT !.seats = NoArg.seats])
    /\ UNCHANGED <<now, pools, members, messages, user>>

\* join_pool: INSERT INTO members, commit
JoinInsert(s) ==
    /\ pc[s] = "join_insert"
    /\ LET row == <<arg[s].pool_id, arg[s].email>>
       IN IF UniqueViolation(members, row)
          THEN \* UNIQUE conflict: sqlite3.IntegrityError, nothing is written
               /\ UNCHANGED members
               /\ Return(s, "join_pool", "IntegrityError")
          ELSE /\ members' = InsertRow(members, row)
               /\ Return(s, "join_pool", "Joined")
    /\ UNCHANGED <<now, pools, messages, user>>

\* ------------------------------------------------------------ leave_pool
\* leave_pool: DELETE FROM members WHERE pool_id = ? AND email = ?, commit
leave_pool(s, who) ==
    /\ Idle(s)
    /\ \E email \in who, pid \in PoolIdInputs :
        members' = DeleteMember(members, pid, email)
    /\ Return(s, "leave_pool", "None")
    /\ UNCHANGED <<now, pools, messages, user>>

\* ------------------------------------------------------------ delete_pool
\* mutant: the host check dropped, any requester may delete an existing pool
IsHost_AnyRequester(ps, pid, requester) == PoolRows(ps, pid) # {}

\* mutant: the host may delete only while holding a membership row of the pool
IsHost_WhileMember(ps, pid, requester) ==
    /\ \E p \in PoolRows(ps, pid) : p.host_email = requester
    /\ is_user_member(members, pid, requester)

\* delete_pool: may requester delete pool pid (the row exists and is theirs)
IsHost(ps, pid, requester) ==
    \E p \in PoolRows(ps, pid) : p.host_email = requester

\* delete_pool(pool_id, requester_email) is called
DeleteCall(s, who) ==
    /\ Idle(s)
    /\ \E requester \in who, pid \in PoolIdInputs :
        Goto(s, "delete_check", [NoArg EXCEPT !.email = requester, !.pool_id = pid])
    /\ UNCHANGED <<now, pools, members, messages, user>>

\* delete_pool: SELECT host_email FROM pools, and the host check
DeleteCheck(s) ==
    /\ pc[s] = "delete_check"
    /\ IF ~IsHost(pools, arg[s].pool_id, arg[s].email)
       THEN Return(s, "delete_pool", "False")
       ELSE Goto(s, "delete_exec", arg[s])
    /\ UNCHANGED <<now, pools, members, messages, user>>

\* delete_pool: DELETE FROM members, DELETE FROM pools, commit
DeleteExec(s) ==
    /\ pc[s] = "delete_exec"
    /\ members' = DeleteMembersOf(members, {arg[s].pool_id})
    /\ pools' = DeletePools(pools, {arg[s].pool_id})
    /\ Return(s, "delete_pool", "True")
    /\ UNCHANGED <<now, messages, user>>

\* ------------------------------------------------------------ cleanup_expired_pools
\* mutant: cleanup finds nothing expired
ExpiredIds_None(ps, t) == {}

\* mutant: a pool departing at the very reading of the clock counts as expired
ExpiredIds_Inclusive(ps, t) == {p.id : p \in {q \in ps : q.when_iso <= t}}

\* mutant: cleanup takes every stored pool for expired
ExpiredIds_All(ps, t) == PoolIds(ps)

\* the pools cleanup_expired_pools finds expired at clock reading t
ExpiredIds(ps, t) == {p.id : p \in {q \in ps : q.when_iso < t}}

\* cleanup_expired_pools: now = datetime.now() and SELECT id, when_iso FROM pools
CleanupScan(s) ==
    /\ Idle(s)
    /\ Goto(s, "cleanup_delete", [NoArg EXCEPT !.ids = ExpiredIds(pools, now)])
    /\ UNCHANGED <<now, pools, members, messages, user>>

\* cleanup_expired_pools: the DELETEs of the loop, commit
CleanupDelete(s) ==
    /\ pc[s] = "cleanup_delete"
    /\ members' = DeleteMembersOf(members, arg[s].ids)
    /\ pools' = DeletePools(pools, arg[s].ids)
    /\ Return(s, "cleanup_expired_pools", "None")
    /\ UNCHANGED <<now, messages, user>>

\* ------------------------------------------------------------ pools_list_ui
\* mutant: list_future_pools without the filter on when_iso
list_future_pools_All(ps, t) == PoolIds(ps)

\* list_future_pools at clock reading t: the ids of the pools it returns
list_future_pools(ps, t) == {p.id : p \in {q \in ps : q.when_iso >= t}}

\* pools_list_ui, cleanup_expired_pools: now = datetime.now() and the SELECT;
\* the reading of the clock is kept in when
ListCleanupScan(s) ==
    /\ Idle(s)
    /\ Goto(s, "list_cleanup_delete",
            [NoArg EXCEPT !.ids = ExpiredIds(pools, now), !.when = now])
    /\ UNCHANGED <<now, pools, members, messages, user>>

\* pools_list_ui, cleanup_expired_pools: the DELETEs of the loop, commit
ListCleanupDelete(s) ==
    /\ pc[s] = "list_cleanup_delete"
    /\ members' = DeleteMembersOf(members, arg[s].ids)
    /\ pools' = DeletePools(pools, arg[s].ids)
    /\ Goto(s, "list_future_pools", [arg[s] EXCEPT !.ids = {}])
    /\ UNCHANGED <<now, messages, user>>

\* pools_list_ui: pools = list_future_pools(), with its own reading of the clock
ListFuturePools(s) ==
    /\ pc[s] = "list_future_pools"
    /\ Goto(s, "list_done", [arg[s] EXCEPT !.ids = list_future_pools(pools, now)])
    /\ UNCHANGED <<now, pools, members, messages, user>>

\* pools_list_ui: the list is rendered, the run ends
ListDone(s) ==
    /\ pc[s] = "list_done"
    /\ Return(s, "pools_list_ui", "None")
    /\ UNCHANGED <<now, pools, members, messages, user>>

\* ------------------------------------------------------------ Supabase client paths
\* the ids the store and the running calls hold
IdsInUse ==
    PoolIds(pools) \cup {r[1] : r \in DOMAIN members}
        \cup {arg[s].pool_id : s \in Sessions}

\* the UUID the database generates for a new pools row: an id nothing holds
SbNewId == CHOOSE n \in 0..MaxTime :
               /\ n \notin IdsInUse
               /\ \A k \in 0..(n - 1) : k \in IdsInUse

\* add_pool, Supabase: SB.table("pools").insert(payload), the id comes back
SbInsertPool(s) ==
    /\ pc[s] = "add_pool"
    /\ LET p == [NewPool(arg[s], now) EXCEPT !.id = SbNewId]
       IN /\ pools' = pools \cup {p}
          /\ Goto(s, "sb_add_member", [arg[s] EXCEPT !.pool_id = p.id])
    /\ UNCHANGED <<now, members, messages, user>>

\* add_pool, Supabase: SB.table("members").insert(host row), a request of its own
SbInsertHost(s) ==
    /\ pc[s] = "sb_add_member"
    /\ LET row == <<arg[s].pool_id, arg[s].email>>
       IN IF UniqueViolation(members, row)
          THEN \* the row is there already: the request fails, nothing is written
               /\ UNCHANGED members
               /\ Return(s, "create_pool_ui", "APIError")
          ELSE /\ members' = InsertRow(members, row)
               /\ Return(s, "create_pool_ui", "Pool created!")
    /\ UNCHANGED <<now, pools, messages, user>>

\* delete_pool of poolpreset.py, Supabase without the RPC: after the host check,
\* SB.table("pools").delete() alone, and bool(dres.data) is returned
SbDeletePoolRow(s) ==
    /\ pc[s] = "delete_exec"
    /\ pools' = DeletePools(pools, {arg[s].pool_id})
    /\ Return(s, "delete_pool",
              IF arg[s].pool_id \in PoolIds(pools) THEN "True" ELSE "False")
    /\ UNCHANGED <<now, members, messages, user>>

\* add_pool, Supabase: the insert into pools is done but its response carries no
\* row, so new_id stays None, the host's row is skipped and add_pool returns
SbInsertPoolNoId(s) ==
    /\ pc[s] = "add_pool"
    /\ pools' = pools \cup {[NewPool(arg[s], now) EXCEPT !.id = SbNewId]}
    /\ Return(s, "create_pool_ui", "Pool created!")
    /\ UNCHANGED <<now, members, messages, user>>

\* leave_pool(pool_id, email) of poolpreset.py is called, Supabase
SbLeaveCall(s, who) ==
    /\ Idle(s)
    /\ \E email \in who, pid \in PoolIdInputs :
        Goto(s, "sb_leave", [NoArg EXCEPT !.email = email, !.pool_id = pid])
    /\ UNCHANGED <<now, pools, members, messages, user>>

\* leave_pool of poolpreset.py, Supabase without the RPC: the direct delete is done,
\* or it raises and "except Exception: return" ends the call all the same
SbLeaveDelete(s) ==
    /\ pc[s] = "sb_leave"
    /\ \/ members' = DeleteMember(members, arg[s].pool_id, arg[s].email)
       \/ members' = members
    /\ Return(s, "leave_pool", "None")
    /\ UNCHANGED <<now, pools, messages, user>>

\* add_message, Supabase: the insert is done (the database numbers the row), or it
\* raises and "except Exception: return" ends the call all the same
SbAddMessage(s) ==
    /\ pc[s] = "add_message"
    /\ \/ messages' = Append(messages,
                             [id |-> Len(messages), pool_id |-> arg[s].pool_id,
                              sender_email |-> arg[s].email, content |-> arg[s].text,
                              created_at |-> now])
       \/ messages' = messages
    /\ Return(s, "add_message", "None")
    /\ UNCHANGED <<now, pools, members, user>>

\* ------------------------------------------------------------ chat
\* the rows of a sequence of rows, as a set
Rows(rows) == {rows[i] : i \in DOMAIN rows}

\* rows with row put in before the first row created later than it
RECURSIVE InsertByCreatedAt(_, _)
InsertByCreatedAt(rows, row) ==
    IF rows = <<>> THEN <<row>>
    ELSE IF Head(rows).created_at > row.created_at THEN <<row>> \o rows
    ELSE <<Head(rows)>> \o InsertByCreatedAt(Tail(rows), row)

\* ORDER BY created_at ASC (rows of one created_at stay in insertion order)
RECURSIVE OrderByCreatedAt(_)
OrderByCreatedAt(rows) ==
    IF rows = <<>> THEN <<>>
    ELSE InsertByCreatedAt(OrderByCreatedAt(SubSeq(rows, 1, Len(rows) - 1)),
                           rows[Len(rows)])

\* LIMIT n
Limit(rows, n) == SubSeq(rows, 1, IF Len(rows) < n THEN Len(rows) ELSE n)

\* list_messages: SELECT ... FROM messages WHERE pool_id = ? ORDER BY created_at ASC LIMIT ?
list_messages(msgs, pid, limit) ==
    Limit(OrderByCreatedAt(SelectSeq(msgs, LAMBDA m : m.pool_id = pid)), limit)

\* pool ids a message row names
MessagePoolIds == {m.pool_id : m \in Rows(messages)}

\* list_messages(pool_id, limit) is called
ListMessagesCall(s) ==
    /\ Idle(s)
    /\ \E pid \in PoolIds(pools) \cup MessagePoolIds \cup {MissingId},
          limit \in LimitInputs :
        Goto(s, "list_messages", [NoArg EXCEPT !.pool_id = pid, !.limit = limit])
    /\ UNCHANGED <<now, pools, members, messages, user>>

\* list_messages: the SELECT; the rows are returned
ListMessagesSelect(s) ==
    /\ pc[s] = "list_messages"
    /\ Return(s, "list_messages", list_messages(messages, arg[s].pool_id, arg[s].limit))
    /\ UNCHANGED <<now, pools, members, messages, user>>

\* mutant: members and chat are shown to those who hold a membership row only
already_MembersOnly(ps, m, pid, e) == is_user_member(m, pid, e)

\* pools_list_ui: already = is_user_member(pid, email) or host_email == email
already(ps, m, pid, e) ==
    is_user_member(m, pid, e) \/ \E p \in PoolRows(ps, pid) : p.host_email = e

\* pools_list_ui of poolpreset.py run on the "Send" button of a pool's chat form:
\* cleanup_expired_pools, the list, and for the pool the test of already and of
\* text.strip(); the chat form is there for a listed pool only
ChatSubmit(s, who) ==
    /\ Idle(s)
    /\ LET ids == ExpiredIds(pools, now)
           ps == DeletePools(pools, ids)
           ms == DeleteMembersOf(members, ids)
       IN /\ pools' = ps
          /\ members' = ms
          /\ \E email \in who, text \in TextInputs :
                IF list_future_pools(ps, now) = {}
                THEN Return(s, "pools_list_ui", "No pools yet")
                ELSE \E pid \in list_future_pools(ps, now) :
                        IF ~already(ps, ms, pid, email)
                        THEN Return(s, "pools_list_ui", "no chat shown")
                        ELSE IF Strip(text) = ""
                        THEN Return(s, "pools_list_ui", "nothing sent")
                        ELSE Goto(s, "add_message",
                                  [NoArg EXCEPT !.email = email, !.pool_id = pid,
                                                !.text = Strip(text)])
    /\ UNCHANGED <<now, messages, user>>

\* add_message: ts = now_iso(), mid = msg_<clock reading>, INSERT INTO messages, commit
add_message(s) ==
    /\ pc[s] = "add_message"
    /\ LET row == [id |-> now, pool_id |-> arg[s].pool_id, sender_email |-> arg[s].email,
                   content |-> arg[s].text, created_at |-> now]
       IN IF row.id \in {m.id : m \in Rows(messages)}
          THEN \* PRIMARY KEY conflict: sqlite3.IntegrityError, nothing is written
               /\ UNCHANGED messages
               /\ Return(s, "add_message", "IntegrityError")
          ELSE /\ messages' = Append(messages, row)
               /\ Return(s, "add_message", "None")
    /\ UNCHANGED <<now, pools, members, user>>

\* ------------------------------------------------------------ pools_list_ui, the order of the list
\* a coordinate that is missing: NULL in the table, None in the dict
Null == 0 - 1

\* float("inf"), above every distance between two places of the model
Inf == 1000

\* latitudes of the places of the model, all on one meridian
LatInputs == {Null, 0, 2}

\* the search target: None (the empty set), or a dict with the latitude picked
TargetInputs == {{}} \cup {{l} : l \in LatInputs}

\* haversine_km(a, b) for two places of one meridian: "not a or not b" gives inf,
\* math.radians(None) raises TypeError, else the distance is that of the latitudes
haversine_km(a, b) ==
    IF a = {} \/ b = {} THEN [error |-> FALSE, km |-> Inf]
    ELSE IF Null \in a \cup b THEN [error |-> TRUE, km |-> 0]
    ELSE LET x == CHOOSE l \in a : TRUE
             y == CHOOSE l \in b : TRUE
         IN [error |-> FALSE, km |-> IF x < y THEN y - x ELSE x - y]

\* rows with row put in behind every row whose key is not greater than its own
RECURSIVE InsertByKey(_, _, _)
InsertByKey(rows, row, key) ==
    IF rows = <<>> THEN <<row>>
    ELSE IF key[Head(rows)] > key[row] THEN <<row>> \o rows
    ELSE <<Head(rows)>> \o InsertByKey(Tail(rows), row, key)

\* list.sort(key=...): ascending and stable
RECURSIVE SortByKey(_, _)
SortByKey(rows, key) ==
    IF rows = <<>> THEN <<>>
    ELSE InsertByKey(SortByKey(SubSeq(rows, 1, Len(rows) - 1), key), rows[Len(rows)], key)

\* SELECT * FROM pools: the rows in the order they were inserted (ids ascend)
RECURSIVE TableOrder(_)
TableOrder(ps) ==
    IF ps = {} THEN <<>>
    ELSE LET p == CHOOSE q \in ps : \A r \in ps : q.id <= r.id
         IN <<p>> \o TableOrder(ps \ {p})

\* pools_list_ui: the pool the link names is put in front of the others
Pin(rows, focus) ==
    IF \E p \in Rows(rows) : p.id = focus
    THEN SelectSeq(rows, LAMBDA p : p.id = focus) \o SelectSeq(rows, LAMBDA p : p.id # focus)
    ELSE rows

\* the date and time picked for the time filter when the clock reads t: the
\* widgets' default, a minute later, and a minute more than the window later
TargetTimes(t) == {t, t + 1, t + TIME_WINDOW + 1}

\* mutant: the time filter drops the departures at the ends of its window
TimeFilter_Exclusive(rows, t) ==
    SelectSeq(rows, LAMBDA p : p.when_iso - t < TIME_WINDOW /\ t - p.when_iso < TIME_WINDOW)

\* pools_list_ui: the time filter, target_dt being t
TimeFilter(rows, t) ==
    SelectSeq(rows, LAMBDA p : p.when_iso - t <= TIME_WINDOW /\ t - p.when_iso <= TIME_WINDOW)

\* the ids of a list of pool rows
IdsOf(rows) == [i \in DOMAIN rows |-> rows[i].id]

\* pools_list_ui: query parameter pool and the widgets are read, and the pool of the
\* link is brought to the top of what list_future_pools returned
ListPin(s) ==
    /\ pc[s] = "list_done"
    /\ \E focus \in PoolIds(pools) \cup {MissingId}, filter \in BOOLEAN,
          target_dt \in TargetTimes(now), target \in TargetInputs :
        Goto(s, "list_sort",
             [arg[s] EXCEPT !.pool_id = focus, !.filter = filter, !.target = target,
                            !.target_dt = IF filter THEN target_dt ELSE NoArg.target_dt,
                            !.pools = Pin(TableOrder({p \in pools : p.id \in arg[s].ids}),
                                          focus)])
    /\ UNCHANGED <<now, pools, members, messages, user>>

\* what a run of pools_list_ui ends with: the exception raised, if any, and the
\* ids of the pools rendered, in their order
Rendered(raised, rows) == [raised |-> raised, shown |-> IdsOf(rows)]

\* pools_list_ui: the time filter, then the sort by distance if a target is picked,
\* by departure time if none is; the list is rendered
ListSort(s) ==
    /\ pc[s] = "list_sort"
    /\ LET kept == IF arg[s].filter THEN TimeFilter(arg[s].pools, arg[s].target_dt)
                   ELSE arg[s].pools
           km == [p \in Rows(kept) |-> haversine_km(arg[s].target, {p.lat})]
       IN IF arg[s].target # {}
          THEN IF \E p \in Rows(kept) : km[p].error
               THEN Return(s, "pools_list_ui", Rendered("TypeError", <<>>))
               ELSE Return(s, "pools_list_ui",
                           Rendered("", SortByKey(kept, [p \in Rows(kept) |-> km[p].km])))
          ELSE Return(s, "pools_list_ui",
                      Rendered("", SortByKey(kept, [p \in Rows(kept) |-> p.when_iso])))
    /\ UNCHANGED <<now, pools, members, messages, user>>

\* the pool host number i created, with its departure time and the latitude of its
\* destination; the hosts created their pools more than the cooldown apart
StoredPool(i, when, lat) ==
    [id |-> i * (COOLDOWN_MINUTES + 1), when_iso |-> when, seats |-> SEATS_MAX,
     host_email |-> UserOf(i), created_at |-> i * (COOLDOWN_MINUTES + 1), lat |-> lat]

\* a store of up to MaxListed pools that have not departed, each with its host's row
InitRender ==
    /\ now = MaxListed * (COOLDOWN_MINUTES + 1)
    /\ \E ids \in SUBSET (1..MaxListed) :
        \E when \in [ids -> {now + 1, now + TIME_WINDOW + 1}], lat \in [ids -> LatInputs] :
            /\ pools = {StoredPool(i, when[i], lat[i]) : i \in ids}
            /\ members = [r \in {<<i * (COOLDOWN_MINUTES + 1), UserOf(i)>> : i \in ids} |-> 1]
    /\ pc = [s \in Sessions |-> "idle"]
    /\ arg = [s \in Sessions |-> NoArg]
    /\ last = <<"none", "none">>
    /\ messages = <<>>
    /\ user = [s \in Sessions |-> NoUser]

\* ------------------------------------------------------------ email_gate
\* the allowed institutional domain, google_oauth.allowed_domain and the pattern of
\* is_bits_email alike ("hyderabad.bits-pilani.ac.in"), shortened to "bits.in"
AllowedDomain == <<"b", "i", "t", "s", ".", "i", "n">>

\* email addresses offered to the gate, letter by letter: "a@bits.in", "A@BITS.in",
\* " a@bits.in " with blanks around it, "a@sbits.in" and "a@gm.in"
GateEmails ==
    {<<"a", "@", "b", "i", "t", "s", ".", "i", "n">>,
     <<"A", "@", "B", "I", "T", "S", ".", "i", "n">>,
     <<" ", "a", "@", "b", "i", "t", "s", ".", "i", "n", " ">>,
     <<"a", "@", "s", "b", "i", "t", "s", ".", "i", "n">>,
     <<"a", "@", "g", "m", ".", "i", "n">>}

\* names offered to the gate: none, a blank, "n"
GateNames == {<<>>, <<" ">>, <<"n">>}

\* the hosted-domain claim hd of a Google ID token: absent, "bits.in", "gm.in"
HdInputs == {<<>>, AllowedDomain, <<"g", "m", ".", "i", "n">>}

\* str.endswith(suffix)
EndsWith(text, suffix) ==
    /\ Len(suffix) <= Len(text)
    /\ SubSeq(text, Len(text) - Len(suffix) + 1, Len(text)) = suffix

\* str.strip() on a text given letter by letter
RECURSIVE StripText(_)
StripText(text) ==
    IF text = <<>> THEN text
    ELSE IF Head(text) = " " THEN StripText(Tail(text))
    ELSE IF text[Len(text)] = " " THEN StripText(SubSeq(text, 1, Len(text) - 1))
    ELSE text

\* text.split("@")[-1]: what follows the last "@", the whole text if there is none
RECURSIVE AfterLastAt(_)
AfterLastAt(text) ==
    IF \A i \in DOMAIN text : text[i] # "@" THEN text
    ELSE AfterLastAt(Tail(text))

\* text.split("@")[0]: what precedes the first "@"
RECURSIVE BeforeFirstAt(_)
BeforeFirstAt(text) ==
    IF text = <<>> \/ Head(text) = "@" THEN <<>>
    ELSE <<Head(text)>> \o BeforeFirstAt(Tail(text))

\* is_bits_email: re.search(r"@<domain>$", email.strip(), re.IGNORECASE)
is_bits_email(email) == EndsWith(Lower(StripText(email)), <<"@">> \o AllowedDomain)

\* google_sign_in_ui, the callback: the verified ID token carries email, name and hd
GoogleCallback(s) ==
    /\ user[s] = NoUser
    /\ \E id_email \in GateEmails, id_name \in GateNames, hd \in HdInputs :
        LET email == Lower(id_email)
            name == IF id_name # <<>> THEN id_name ELSE BeforeFirstAt(email)
        IN IF ~EndsWith(email, <<"@">> \o AllowedDomain)
                /\ hd # AfterLastAt(AllowedDomain)
           THEN /\ user' = user
                /\ last' = <<"email_gate", "This app is restricted to the allowed domain">>
           ELSE /\ user' = [user EXCEPT ![s] = [name |-> name, email |-> email]]
                /\ last' = <<"email_gate", "signed in with Google">>
    /\ UNCHANGED <<now, pools, members, pc, arg, messages>>

\* email_gate, the manual form: the "Enter" button with a name and an email typed in
ManualEnter(s) ==
    /\ user[s] = NoUser
    /\ \E name \in GateNames, email \in GateEmails :
        IF StripText(name) = <<>>
        THEN /\ user' = user
             /\ last' = <<"email_gate", "Please enter your name">>
        ELSE IF ~is_bits_email(email)
        THEN /\ user' = user
             /\ last' = <<"email_gate", "Use your BITS Hyderabad email">>
        ELSE /\ user' = [user EXCEPT ![s] =
                            [name |-> StripText(name), email |-> Lower(StripText(email))]]
             /\ last' = <<"email_gate", "signed in by hand">>
    /\ UNCHANGED <<now, pools, members, pc, arg, messages>>

\* main: the "Sign out" button
SignOut(s) ==
    /\ user[s] # NoUser
    /\ user' = [user EXCEPT ![s] = NoUser]
    /\ last' = <<"main", "Sign out">>
    /\ UNCHANGED <<now, pools, members, pc, arg, messages>>

\* ------------------------------------------------------------ can_host_create, its try blocks
\* a created_at that datetime.fromisoformat does not parse
BadStamp == 0 - 1

\* datetime.fromisoformat(created_at) returns
Parses(created_at) == created_at # BadStamp

\* mutant: a query that fails counts as a cooldown
can_host_create_try_FailClosed(ps, email, t, fails) ==
    /\ ~fails
    /\ ~\E p \in ps :
          /\ p.host_email = email
          /\ Parses(p.created_at)
          /\ p.created_at >= t - COOLDOWN_MINUTES

\* can_host_create with its two try blocks: the SELECT raises (fails) and the outer
\* except returns True; a created_at that does not parse is passed over by the
\* inner except
can_host_create_try(ps, email, t, fails) ==
    IF fails THEN TRUE
    ELSE ~\E p \in ps :
            /\ p.host_email = email
            /\ Parses(p.created_at)
            /\ p.created_at >= t - COOLDOWN_MINUTES

\* create_pool_ui up to the call of can_host_create: the checks on destination,
\* time and airport pickup; whether the query of the guard is going to fail is
\* the store's choice
CreateSubmitChecks(s, who) ==
    /\ Idle(s)
    /\ \E email \in who, dest \in DestInputs, when \in WhenInputs(now),
          pickup \in PickupInputs, seats \in SeatInputs, fails \in BOOLEAN :
        LET verdict == CreateVerdict({}, email, dest, when, pickup, now)
        IN IF verdict = "ok"
           THEN Goto(s, "can_host_create",
                     [NoArg EXCEPT !.email = email, !.when = when, !.seats = seats,
                                   !.fails = fails])
           ELSE Return(s, "create_pool_ui", verdict)
    /\ UNCHANGED <<now, pools, members, messages, user>>

\* create_pool_ui: elif not can_host_create(user["email"]), else add_pool
CanHostCreateQuery(s) ==
    /\ pc[s] = "can_host_create"
    /\ IF can_host_create_try(pools, arg[s].email, now, arg[s].fails)
       THEN Goto(s, "add_pool", [arg[s] EXCEPT !.fails = FALSE])
       ELSE Return(s, "create_pool_ui",
                   "You can only create one pool every 15 minutes to prevent spam.")
    /\ UNCHANGED <<now, pools, members, messages, user>>

\* a pools row found in pools.db at start-up, of host EmailList[i], created at c
LegacyPool(i, c) ==
    [id |-> MaxTime + 1 + i, when_iso |-> MaxTime, seats |-> SEATS_MAX,
     host_email |-> EmailList[i], created_at |-> c]

\* init_db over a pools.db that holds rows already: for each of two hosts no row, a
\* row created at reading 0, or a row whose created_at does not parse
InitLegacy ==
    /\ now = 0
    /\ \E c \in [1..2 -> {"none", "bad", "zero"}] :
          pools = {LegacyPool(i, IF c[i] = "bad" THEN BadStamp ELSE 0) :
                      i \in {j \in 1..2 : c[j] # "none"}}
    /\ members = [r \in {<<p.id, p.host_email>> : p \in pools} |-> 1]
    /\ pc = [s \in Sessions |-> "idle"]
    /\ arg = [s \in Sessions |-> NoArg]
    /\ last = <<"none", "none">>
    /\ messages = <<>>
    /\ user = [s \in Sessions |-> NoUser]

\* ------------------------------------------------------------ poolpreset.py, the engine on SQLite
\* the engine functions of src/poolpreset.py, each as one call over the tables ps
\* (pools) and m (members) at clock reading t

\* can_host_create of poolpreset.py: no row of the host with created_at >= since
can_host_create_preset(ps, email, t) ==
    \A p \in {q \in ps : q.host_email = email} :
        ~(p.created_at >= t - COOLDOWN_MINUTES)

\* add_pool of poolpreset.py: INSERT INTO pools (a taken id raises
\* sqlite3.IntegrityError), INSERT OR IGNORE INTO members, commit
add_pool_preset(ps, m, p) ==
    IF \E q \in ps : q.id = p.id
    THEN [raised |-> TRUE, pools |-> ps, members |-> m]
    ELSE [raised |-> FALSE,
          pools |-> ps \cup {p},
          members |-> IF <<p.id, p.host_email>> \in DOMAIN m THEN m
                      ELSE m @@ (<<p.id, p.host_email>> :> 1)]

\* list_future_pools of poolpreset.py: the rows with when_iso >= datetime.now()
list_future_pools_preset(ps, t) == {p.id : p \in {q \in ps : ~(q.when_iso < t)}}

\* mutant: join_pool tests the ride time before the membership
join_pool_preset_TimeFirst(ps, m, pid, email, t) ==
    IF \E p \in ps : p.id = pid /\ p.when_iso < t
    THEN [msg |-> "Ride time has passed", members |-> m]
    ELSE IF <<pid, email>> \in DOMAIN m
    THEN [msg |-> "Already joined", members |-> m]
    ELSE IF ~\E p \in ps : p.id = pid
    THEN [msg |-> "Pool not found", members |-> m]
    ELSE LET row == CHOOSE p \in ps : p.id = pid
             count == SumCopies(m, {r \in DOMAIN m : r[1] = pid})
         IN IF count >= row.seats
            THEN [msg |-> "Pool is full", members |-> m]
            ELSE [msg |-> "Joined", members |-> m @@ (<<pid, email>> :> 1)]

\* join_pool of poolpreset.py: already joined, pool not found, ride time passed,
\* pool full, else INSERT INTO members and commit
join_pool_preset(ps, m, pid, email, t) ==
    IF <<pid, email>> \in DOMAIN m
    THEN [msg |-> "Already joined", members |-> m]
    ELSE IF ~\E p \in ps : p.id = pid
    THEN [msg |-> "Pool not found", members |-> m]
    ELSE LET row == CHOOSE p \in ps : p.id = pid
             count == SumCopies(m, {r \in DOMAIN m : r[1] = pid})
         IN IF row.when_iso < t
            THEN [msg |-> "Ride time has passed", members |-> m]
            ELSE IF count >= row.seats
            THEN [msg |-> "Pool is full", members |-> m]
            ELSE [msg |-> "Joined", members |-> m @@ (<<pid, email>> :> 1)]

\* leave_pool of poolpreset.py: DELETE FROM members WHERE pool_id = ? AND email = ?
leave_pool_preset(m, pid, email) ==
    [r \in {x \in DOMAIN m : ~(x[1] = pid /\ x[2] = email)} |-> m[r]]

\* delete_pool of poolpreset.py: False unless the row is there and the requester's,
\* else both DELETEs, commit, True
delete_pool_preset(ps, m, pid, requester) ==
    IF ~\E p \in ps : p.id = pid /\ p.host_email = requester
    THEN [ok |-> FALSE, pools |-> ps, members |-> m]
    ELSE [ok |-> TRUE,
          pools |-> {p \in ps : p.id # pid},
          members |-> [r \in {x \in DOMAIN m : x[1] # pid} |-> m[r]]]

\* cleanup_expired_pools of poolpreset.py: both DELETEs for every pool with
\* when_iso < now, commit
cleanup_expired_pools_preset(ps, m, t) ==
    LET old == {p.id : p \in {q \in ps : q.when_iso < t}}
    IN [pools |-> {p \in ps : p.id \notin old},
        members |-> [r \in {x \in DOMAIN m : x[1] \notin old} |-> m[r]]]

\* ------------------------------------------------------------ specifications
\* the free session of lowest number starts an engine call: a create request of
\* an identity of hosts, or another call for an identity of who
Call(s, hosts, who) ==
    /\ Serves(s)
    /\ \/ CreateSubmit(s, hosts)
       \/ JoinCall(s, who)
       \/ leave_pool(s, who)
       \/ DeleteCall(s, who)
       \/ CleanupScan(s)

\* a session inside join_pool runs its next statement
JoinStep(s) ==
    \/ JoinCheck(s)
    \/ JoinReadPool(s)
    \/ JoinCount(s)
    \/ JoinInsert(s)

\* a session inside a call runs its next statement
Step(s) ==
    \/ add_pool(s)
    \/ JoinStep(s)
    \/ DeleteCheck(s)
    \/ DeleteExec(s)
    \/ CleanupDelete(s)

\* sessions run concurrently, at most MaxInFlight calls at a time: calls interleave
\* at their statements, and the clock moves on by the cooldown while they run
Next ==
    \/ Tick(COOLDOWN_MINUTES)
    \/ InFlight < MaxInFlight /\ \E s \in Sessions : Call(s, TwoEmails, TwoEmails)
    \/ \E s \in Sessions : Step(s)

Spec == Init /\ [][Next]_vars

\* one call at a time: a call starts, and the clock moves, only when no call is running
NextSeq ==
    \/ AllIdle /\ \E d \in TickSteps : Tick(d)
    \/ AllIdle /\ \E s \in Sessions : Call(s, TwoEmails, Emails)
    \/ \E s \in Sessions : Step(s)

SpecSeq == Init /\ [][NextSeq]_vars

\* the join race: every session may be inside join_pool for its own identity, the calls
\* interleaving at their statements at one reading of the clock; pools are created and
\* left one call at a time in between
NextJoinRace ==
    \/ AllIdle /\ \E s \in Sessions : Serves(s) /\ CreateSubmit(s, Emails)
    \/ AllIdle /\ \E s \in Sessions : Serves(s) /\ leave_pool(s, Emails)
    \/ \E s \in Sessions : add_pool(s)
    \/ \E s \in Sessions : JoinCall(s, {UserOf(s)})
    \/ \E s \in Sessions : JoinStep(s)

SpecJoinRace == Init /\ [][NextJoinRace]_vars

\* a session inside a call runs its next statement, Supabase client paths
SbStep(s) ==
    \/ SbInsertPool(s)
    \/ SbInsertHost(s)
    \/ JoinStep(s)
    \/ DeleteCheck(s)
    \/ SbDeletePoolRow(s)
    \/ CleanupDelete(s)

\* pool ids that only membership rows hold: the pools row is gone
OrphanIds == {r[1] : r \in DOMAIN members} \ PoolIds(pools)

\* poolpreset.py on Supabase with the RPCs missing, one call at a time (create
\* requests are taken while fewer than MaxPools deleted pools have rows left over)
NextSb ==
    \/ AllIdle /\ \E d \in TickSteps : Tick(d)
    \/ /\ AllIdle
       /\ Cardinality(OrphanIds) < MaxPools
       /\ \E s \in Sessions : Serves(s) /\ PresetCreateSubmit(s, TwoEmails)
    \/ /\ AllIdle
       /\ \E s \in Sessions :
            /\ Serves(s)
            /\ \/ JoinCall(s, Emails)
               \/ leave_pool(s, Emails)
               \/ DeleteCall(s, Emails)
               \/ CleanupScan(s)
    \/ \E s \in Sessions : SbStep(s)

SpecSb == Init /\ [][NextSb]_vars

\* a session inside pools_list_ui runs its next statement
ListStep(s) ==
    \/ ListCleanupDelete(s)
    \/ ListFuturePools(s)
    \/ ListDone(s)

\* listings among creations, joins and leaves, one call at a time; the clock moves
\* on between the statements of a call
NextList ==
    \/ \E d \in TickSteps : Tick(d)
    \/ /\ AllIdle
       /\ \E s \in Sessions :
            /\ Serves(s)
            /\ \/ CreateSubmit(s, TwoEmails)
               \/ JoinCall(s, Emails)
               \/ leave_pool(s, Emails)
               \/ ListCleanupScan(s)
    \/ \E s \in Sessions : add_pool(s) \/ JoinStep(s) \/ ListStep(s)

SpecList == Init /\ [][NextList]_vars

\* add_pool on Supabase among join_pool calls of other sessions: pools are created
\* one at a time, every session may be inside join_pool for its own identity, and
\* the calls interleave at their requests; nobody leaves and nothing is deleted
NextSbRace ==
    \/ AllIdle /\ \E s \in Sessions : Serves(s) /\ CreateSubmit(s, TwoEmails)
    \/ \E s \in Sessions : SbInsertPool(s) \/ SbInsertHost(s)
    \/ \E s \in Sessions : JoinCall(s, {UserOf(s)})
    \/ \E s \in Sessions : JoinStep(s)

SpecSbRace == Init /\ [][NextSbRace]_vars

\* a session inside a call runs its next statement, chat included
ChatStep(s) ==
    \/ add_pool(s)
    \/ JoinStep(s)
    \/ DeleteCheck(s)
    \/ DeleteExec(s)
    \/ CleanupDelete(s)
    \/ ListMessagesSelect(s)
    \/ add_message(s)

\* poolpreset.py with the chat, SQLite: pools are created, joined, left, deleted and
\* reaped one call at a time, while chat forms are submitted by up to MaxInFlight
\* sessions at a time (a post is taken while the table has room for its message)
NextChat ==
    \/ AllIdle /\ \E d \in TickSteps : Tick(d)
    \/ /\ AllIdle
       /\ \E s \in Sessions :
            /\ Serves(s)
            /\ \/ PresetCreateSubmit(s, {EmailList[1]})
               \/ JoinCall(s, {EmailList[2]})
               \/ leave_pool(s, TwoEmails)
               \/ DeleteCall(s, TwoEmails)
               \/ CleanupScan(s)
               \/ ListMessagesCall(s)
    \/ /\ InFlight < MaxInFlight
       /\ \A r \in Sessions : pc[r] \in {"idle", "add_message"}
       /\ Len(messages) + InFlight < MaxMessages
       /\ \E s \in Sessions : Serves(s) /\ ChatSubmit(s, Emails)
    \/ \E s \in Sessions : ChatStep(s)

SpecChat == Init /\ [][NextChat]_vars

\* runs of pools_list_ui of pool.py over a store of pools, one at a time
NextRender ==
    \/ AllIdle /\ \E s \in Sessions : Serves(s) /\ ListCleanupScan(s)
    \/ \E s \in Sessions : ListCleanupDelete(s)
    \/ \E s \in Sessions : ListFuturePools(s)
    \/ \E s \in Sessions : ListPin(s)
    \/ \E s \in Sessions : ListSort(s)

SpecRender == InitRender /\ [][NextRender]_vars

\* poolpreset.py on Supabase with the RPCs missing and requests that may fail, one
\* call at a time
NextSbFail ==
    \/ AllIdle /\ \E d \in TickSteps : Tick(d)
    \/ /\ AllIdle
       /\ \E s \in Sessions :
            /\ Serves(s)
            /\ \/ PresetCreateSubmit(s, TwoEmails)
               \/ JoinCall(s, Emails)
               \/ SbLeaveCall(s, Emails)
    \/ /\ AllIdle
       /\ Len(messages) < MaxMessages
       /\ \E s \in Sessions : Serves(s) /\ ChatSubmit(s, TwoEmails)
    \/ \E s \in Sessions : SbInsertPool(s) \/ SbInsertPoolNoId(s) \/ SbInsertHost(s)
    \/ \E s \in Sessions : JoinStep(s)
    \/ \E s \in Sessions : SbLeaveDelete(s)
    \/ \E s \in Sessions : SbAddMessage(s)

SpecSbFail == Init /\ [][NextSbFail]_vars

\* creations by different hosts that overlap, SQLite: the requests are validated and
\* their add_pool calls run at one reading of the clock
NextCreateRace ==
    \/ AllIdle /\ \E d \in TickSteps : Tick(d)
    \/ \E s \in Sessions : Serves(s) /\ CreateSubmitAtOnce(s, Emails)
    \/ \E s \in Sessions : add_pool(s)

SpecCreateRace == Init /\ [][NextCreateRace]_vars

\* creations that overlap, the same host's included, SQLite: a request is validated
\* while another is between its spam guard and its insert, and the clock moves on
\* between the statements
NextHostRace ==
    \/ \E d \in TickSteps : Tick(d)
    \/ \E s \in Sessions : Serves(s) /\ CreateSubmitOverlap(s, TwoEmails)
    \/ \E s \in Sessions : add_pool(s)

SpecHostRace == Init /\ [][NextHostRace]_vars

\* a session inside a call runs its next statement, listing and chat included
ExpiryStep(s) ==
    \/ add_pool(s)
    \/ JoinStep(s)
    \/ DeleteCheck(s)
    \/ DeleteExec(s)
    \/ ListStep(s)
    \/ add_message(s)

\* poolpreset.py on SQLite, one call at a time: pools are created, joined, left and
\* deleted, the list is run, and chat forms are submitted (a post is taken while the
\* table has room for its message), the clock moving on between the calls
NextExpiry ==
    \/ AllIdle /\ \E d \in TickSteps : Tick(d)
    \/ /\ AllIdle
       /\ \E s \in Sessions :
            /\ Serves(s)
            /\ \/ PresetCreateSubmit(s, {EmailList[1]})
               \/ JoinCall(s, Emails)
               \/ leave_pool(s, TwoEmails)
               \/ DeleteCall(s, TwoEmails)
               \/ ListCleanupScan(s)
    \/ /\ AllIdle
       /\ Len(messages) < MaxMessages
       /\ \E s \in Sessions : Serves(s) /\ ChatSubmit(s, TwoEmails)
    \/ \E s \in Sessions : ExpiryStep(s)

SpecExpiry == Init /\ [][NextExpiry]_vars

\* create requests over a store that holds rows already and whose query may fail,
\* one call at a time
NextGuard ==
    \/ AllIdle /\ \E d \in TickSteps : Tick(d)
    \/ AllIdle /\ \E s \in Sessions : Serves(s) /\ CreateSubmitChecks(s, TwoEmails)
    \/ \E s \in Sessions : CanHostCreateQuery(s)
    \/ \E s \in Sessions : add_pool(s)

SpecGuard == InitLegacy /\ [][NextGuard]_vars

\* the identity gate alone: every session signs in, with Google or by hand, and out
NextGate ==
    \/ \E s \in Sessions : GoogleCallback(s)
    \/ \E s \in Sessions : ManualEnter(s)
    \/ \E s \in Sessions : SignOut(s)

SpecGate == Init /\ [][NextGate]_vars

\* ------------------------------------------------------------ claims
\* SELECT COUNT(*) FROM members WHERE pool_id = pid, in the current state
Count(pid) == get_members_count(members, pid)

\* C1 (as stated): every pool in the store has 0 < member_count <= seats; a pool
\* with zero membership rows never exists after its creation.
C1_MemberCountPositive ==
    \A p \in pools : 0 < Count(p.id) /\ Count(p.id) <= p.seats

\* C1 (amended): with calls run one at a time, every pool in the store has
\* member_count <= seats, a pool has exactly one membership row (the host's) when
\* it is created, and the count of a stored pool falls only in a leave_pool call:
\* a pool has zero rows exactly after its members, the host included, have left.
C1_CountFallsOnlyByLeave ==
    /\ [](\A p \in pools : Count(p.id) <= p.seats)
    /\ [][/\ \A p \in pools' \ pools : get_members_count(members', p.id) = 1
          /\ \A p \in pools' \cap pools :
                get_members_count(members', p.id) < Count(p.id)
                    => last' = <<"leave_pool", "None">>]_vars

\* C1 witness: a pool is in the store without a single membership row, right after
\* a leave_pool call.
C1_EmptyPoolAfterLeave ==
    /\ last = <<"leave_pool", "None">>
    /\ \E p \in pools : Count(p.id) = 0

\* C2: with calls run one at a time, the number of membership rows of a pool never
\* exceeds the pool's seats.
C2_SeqCountWithinSeats ==
    \A p \in pools : Count(p.id) <= p.seats

\* C2 witness: join_pool has just refused a caller because the pool holds exactly
\* seats rows.
C2_FullPoolRefuses ==
    /\ last = <<"join_pool", "Pool is full">>
    /\ \E p \in pools : Count(p.id) = p.seats

\* C3 (as stated): when join_pool calls by distinct identities interleave at their
\* statements, a pool's membership count never exceeds seats + 1.
C3_AtMostOneExtra ==
    \A p \in pools : Count(p.id) <= p.seats + 1

\* C4: the members table holds at most one row per (pool_id, email), also when
\* add_pool and join_pool calls for one identity interleave.
C4_UniqueMembership ==
    \A r \in DOMAIN members : members[r] <= 1

\* C4 witness: a join_pool call ran into the UNIQUE index: its INSERT of a row that
\* a concurrent call had stored meanwhile was refused.
C4_DuplicateInsertRefused ==
    /\ last = <<"join_pool", "IntegrityError">>
    /\ \E r \in DOMAIN members : members[r] = 1

\* C5 (as stated): the cooldown cannot be refilled early. A host whose pool was
\* created less than COOLDOWN_MINUTES ago does not pass the spam guard, whatever
\* call ran in between: no step lets can_host_create turn true for the host of a
\* pool row that was in the store, before COOLDOWN_MINUTES have gone by since the
\* row's created_at.
C5_CooldownNotRefilled ==
    [][\A p \in pools :
          now' - p.created_at < COOLDOWN_MINUTES
              => ~can_host_create(pools', p.host_email, now')]_vars

\* session s returns from join_pool in this step
JoinReturns(s) ==
    /\ pc[s] \in {"join_check", "join_read_pool", "join_count", "join_insert"}
    /\ pc'[s] = "idle"

\* session s returns from delete_pool in this step
DeleteReturns(s) ==
    /\ pc[s] \in {"delete_check", "delete_exec"}
    /\ pc'[s] = "idle"

\* the pool session s's call names is in the store and holds exactly seats rows
CalledPoolIsFull(s) ==
    \E p \in pools : p.id = arg[s].pool_id /\ Count(p.id) = p.seats

\* C6: can_host_create(email) is false right after a successful creation by email,
\* still false at exactly created_at + 15 minutes, and true once the clock is
\* strictly later than created_at + 15 minutes for every pool row of that host.
C6_CanHostCreateWindow ==
    /\ [][\A s \in Sessions :
            (pc[s] = "add_pool" /\ pc'[s] = "idle"
                /\ last' = <<"create_pool_ui", "Pool created!">>)
                => ~can_host_create(pools', arg[s].email, now')]_vars
    /\ [](\A p \in pools :
            now = p.created_at + COOLDOWN_MINUTES
                => ~can_host_create(pools, p.host_email, now))
    /\ [](\A e \in Emails :
            (\A p \in pools : p.host_email = e => now > p.created_at + COOLDOWN_MINUTES)
                => can_host_create(pools, e, now))

\* C6 witness: exactly COOLDOWN_MINUTES after a host's creation, that pool still in
\* the store, a create request has just been refused by the spam guard.
C6_RefusedAtWindowEdge ==
    /\ last = <<"create_pool_ui",
                "You can only create one pool every 15 minutes to prevent spam.">>
    /\ \E p \in pools : now = p.created_at + COOLDOWN_MINUTES

\* C7 (as stated): join_pool on a pool whose member count equals its seats always
\* returns "Pool is full", for every caller and every pool state.
C7_FullAlwaysPoolFull ==
    [][\A s \in Sessions :
          (JoinReturns(s) /\ CalledPoolIsFull(s))
              => last' = <<"join_pool", "Pool is full">>]_vars

\* C7 (amended): with calls run one at a time, join_pool on a pool whose member
\* count equals its seats never returns "Joined" and stores no row; it returns
\* "Pool is full" when the caller holds no membership there and the departure time
\* has not passed, "Already joined" when the caller holds one, and "Ride time has
\* passed" when the caller holds none and the departure time is before now.
C7_FullNeverJoined ==
    [][\A s \in Sessions :
          (JoinReturns(s) /\ CalledPoolIsFull(s)) =>
              LET p == CHOOSE q \in pools : q.id = arg[s].pool_id
                  member == <<arg[s].pool_id, arg[s].email>> \in DOMAIN members
              IN /\ last' # <<"join_pool", "Joined">>
                 /\ members' = members
                 /\ last' = <<"join_pool",
                              IF member THEN "Already joined"
                              ELSE IF p.when_iso < now THEN "Ride time has passed"
                              ELSE "Pool is full">>]_vars

\* C7 witness: a caller who holds a seat of a full pool called join_pool again and
\* got "Already joined".
C7_MemberOfFullPoolRejoins ==
    /\ last = <<"join_pool", "Already joined">>
    /\ \E p \in pools : Count(p.id) = p.seats

\* the outcome the evaluation order of join_pool prescribes for (pid, email)
ExpectedJoinOutcome(pid, email) ==
    IF <<pid, email>> \in DOMAIN members THEN "Already joined"
    ELSE IF ~\E p \in pools : p.id = pid THEN "Pool not found"
    ELSE LET p == CHOOSE q \in pools : q.id = pid
         IN IF p.when_iso < now THEN "Ride time has passed"
            ELSE IF Count(pid) >= p.seats THEN "Pool is full"
            ELSE "Joined"

\* C8: join_pool's outcome is that of the first condition that holds, in the order
\* already a member, pool missing, departure before now, count >= seats, else
\* "Joined" with exactly one membership row inserted; only "Joined" changes the store.
C8_JoinOutcomeOrder ==
    [][\A s \in Sessions :
          JoinReturns(s) =>
              LET row == <<arg[s].pool_id, arg[s].email>>
                  outcome == ExpectedJoinOutcome(arg[s].pool_id, arg[s].email)
              IN /\ last' = <<"join_pool", outcome>>
                 /\ pools' = pools
                 /\ IF outcome = "Joined"
                    THEN /\ row \notin DOMAIN members
                         /\ DOMAIN members' = DOMAIN members \cup {row}
                         /\ \A r \in DOMAIN members : members'[r] = members[r]
                         /\ members'[row] = 1
                    ELSE members' = members]_vars

\* C8 witness: a join_pool call has returned "Joined" for a pool that has a free
\* seat left even now.
C8_JoinedWithSeatsLeft ==
    /\ last = <<"join_pool", "Joined">>
    /\ \E p \in pools : 1 < Count(p.id) /\ Count(p.id) < p.seats

\* C9: a join_pool call for a (pool, email) whose membership row exists returns
\* "Already joined" and leaves pools and members unchanged, so two successive
\* joins never store a second row for the pair.
C9_RejoinIsAlreadyJoined ==
    /\ [](\A r \in DOMAIN members : members[r] = 1)
    /\ [][\A s \in Sessions :
            (JoinReturns(s) /\ <<arg[s].pool_id, arg[s].email>> \in DOMAIN members)
                => /\ last' = <<"join_pool", "Already joined">>
                   /\ pools' = pools
                   /\ members' = members]_vars

\* C9 witness: a join_pool call has been answered "Already joined" while a pool
\* holds the row of a member who joined it (a row other than the host's).
C9_SecondJoinAnswered ==
    /\ last = <<"join_pool", "Already joined">>
    /\ \E p \in pools : \E r \in DOMAIN members : r[1] = p.id /\ r[2] # p.host_email

\* C10: delete_pool called by a requester who is not the pool's host, or for a pool
\* id that does not exist, returns False and leaves pools and members unchanged.
C10_NonHostDeleteRefused ==
    [][\A s \in Sessions :
          (DeleteReturns(s)
              /\ ~\E p \in pools : p.id = arg[s].pool_id /\ p.host_email = arg[s].email)
              => /\ last' = <<"delete_pool", "False">>
                 /\ pools' = pools
                 /\ members' = members]_vars

\* C10 witness: delete_pool has just answered False while a pool, with a member
\* other than its host, is in the store.
C10_RefusedWithPoolPresent ==
    /\ last = <<"delete_pool", "False">>
    /\ \E p \in pools : \E r \in DOMAIN members : r[1] = p.id /\ r[2] # p.host_email

\* C11 (as stated): whenever delete_pool returns True, on every backend path, the
\* store afterwards holds neither the pool nor a membership row of that pool_id.
C11_DeleteRemovesAll ==
    [][\A s \in Sessions :
          (DeleteReturns(s) /\ last' = <<"delete_pool", "True">>)
              => /\ arg[s].pool_id \notin PoolIds(pools')
                 /\ MemberRows(members', arg[s].pool_id) = {}]_vars

\* C12: cleanup_expired_pools evaluated at time now removes exactly the pools with
\* when_iso < now, each with all its membership rows; every pool with
\* when_iso >= now and every other membership row stays as it was.
C12_CleanupRemovesExactlyExpired ==
    [][\A s \in Sessions :
          (pc[s] = "cleanup_delete" /\ pc'[s] = "idle") =>
              /\ pools' = {p \in pools : p.when_iso >= now}
              /\ DOMAIN members' =
                    {r \in DOMAIN members :
                        ~\E p \in pools : p.id = r[1] /\ p.when_iso < now}
              /\ \A r \in DOMAIN members' : members'[r] = members[r]]_vars

\* C12 witness: cleanup_expired_pools has found a pool expired that holds the rows
\* of its host and of a member who joined, and is about to delete.
C12_ExpiredPoolWithMembersFound ==
    \E s \in Sessions :
        /\ pc[s] = "cleanup_delete"
        /\ \E p \in pools : p.id \in arg[s].ids /\ p.when_iso < now /\ Count(p.id) >= 2

\* C13 (as stated): a run of pools_list_ui reaps before it lists: the list holds
\* only pools with when_iso >= now, and right after the listing the store holds no
\* pool, and no membership row of a pool, that departed before the listing instant.
C13_NoExpiredAfterListing ==
    [][\A s \in Sessions :
          (pc[s] = "list_future_pools" /\ pc'[s] = "list_done") =>
              /\ \A p \in pools' : p.id \in arg'[s].ids => p.when_iso >= now
              /\ \A p \in pools' : p.when_iso >= now
              /\ \A r \in DOMAIN members' : r[1] \in PoolIds(pools')]_vars

\* C13 (amended): with no other call running during a run of pools_list_ui, the
\* list holds exactly the stored pools with when_iso >= the listing's reading of
\* the clock, and right after the listing the store holds no pool, and no
\* membership row of a pool, that departed before the reading of the clock that
\* cleanup_expired_pools took at the start of the run; a pool departing between
\* the two readings is neither listed nor removed.
C13_ReapsBeforeListing ==
    [][\A s \in Sessions :
          (pc[s] = "list_future_pools" /\ pc'[s] = "list_done") =>
              /\ arg'[s].ids = {p.id : p \in {q \in pools' : q.when_iso >= now}}
              /\ \A p \in pools' : p.when_iso >= arg[s].when
              /\ \A r \in DOMAIN members' : r[1] \in PoolIds(pools')]_vars

\* C13 witness: a listing is done and a pool of the store is not on the list: it
\* departed after cleanup_expired_pools read the clock and before the listing did.
C13_UnlistedPoolStillStored ==
    \E s \in Sessions :
        /\ pc[s] = "list_done"
        /\ \E p \in pools : p.id \notin arg[s].ids /\ p.when_iso >= arg[s].when

\* C14 (as stated): while nobody leaves and nothing is deleted, no state of the
\* store shows a pool without the membership row of its host: add_pool stores the
\* pool and registers the host in one atomic step.
C14_PoolNeverWithoutHost ==
    \A p \in pools : is_user_member(members, p.id, p.host_email)

\* C15 (as stated): a create request whose departure time is not strictly later
\* than the evaluation time, departure time = now included, is never accepted, and
\* no pool is in the store with when_iso <= its created_at.
C15_DepartureStrictlyFuture ==
    /\ [](\A p \in pools : p.when_iso > p.created_at)
    /\ [][\A s \in Sessions :
            (pc[s] = "idle" /\ pc'[s] = "add_pool") => arg'[s].when > now]_vars

\* the message of the first check of a list of <<fails, message>> that fails
RECURSIVE FirstFailure(_, _)
FirstFailure(checks, i) ==
    IF i \notin DOMAIN checks THEN "ok"
    ELSE IF checks[i][1] THEN checks[i][2]
    ELSE FirstFailure(checks, i + 1)

TimeMsg == "Please pick a future time."
CooldownMsg == "You can only create one pool every 15 minutes to prevent spam."

\* the five checks of a create request in the order the claim gives them
FiveChecks(email, dest, when, pickup, seats) ==
    <<  <<dest = "none", "Please search and select a destination.">>,
        <<when < now, TimeMsg>>,
        <<dest \in {"airport", "airport_addr"} /\ pickup \in {"", " "},
          "For airport rides, please enter a pickup point.">>,
        <<seats \notin SEATS_MIN..SEATS_MAX, "Seats out of range.">>,
        <<\E p \in pools : p.host_email = email
                /\ now - p.created_at <= COOLDOWN_MINUTES, CooldownMsg>>  >>

\* an accepted create request has passed the time, seats and cooldown checks
AcceptedPassedChecks ==
    [][\A s \in Sessions :
          (pc[s] = "idle" /\ pc'[s] = "add_pool") =>
              /\ arg'[s].when >= now
              /\ arg'[s].seats \in SEATS_MIN..SEATS_MAX
              /\ can_host_create(pools, arg'[s].email, now)]_vars

\* C16 (as stated): in both variants a create request gets the message of the first
\* of the five checks destination, time, airport pickup, seats, cooldown that fails,
\* and is accepted only if all five pass.
C16_FiveChecksInOrder ==
    /\ [](\A email \in Emails, dest \in DestInputs, when \in WhenInputs(now),
            pickup \in PickupInputs, seats \in SeatInputs :
            /\ CreateVerdict(pools, email, dest, when, pickup, now)
                  = FirstFailure(FiveChecks(email, dest, when, pickup, seats), 1)
            /\ dest = "plain" =>
                  LET verdict == CreateVerdictPreset(pools, email, when, pickup, now)
                      first == FirstFailure(FiveChecks(email, dest, when, pickup, seats), 1)
                  IN /\ first # "ok" => verdict = first
                     /\ verdict = "ok" => first = "ok")
    /\ AcceptedPassedChecks

\* C16 (amended): create_pool_ui of pool.py reports the first failure of the four
\* checks destination selected, departure time not before now, pickup given for an
\* airport destination, spam cooldown, and calls add_pool only if all four pass;
\* create_pool_ui of poolpreset.py reports the first failure of the three checks
\* departure time not before now, pickup given (whatever the destination), spam
\* cooldown. Neither has a seats check: the form's input confines seats to [1, 10].
C16_ChecksInCodeOrder ==
    /\ [](\A email \in Emails, dest \in DestInputs, when \in WhenInputs(now),
            pickup \in PickupInputs, seats \in SeatInputs :
            /\ CreateVerdict(pools, email, dest, when, pickup, now)
                  = FirstFailure(<< FiveChecks(email, dest, when, pickup, seats)[1],
                                    FiveChecks(email, dest, when, pickup, seats)[2],
                                    FiveChecks(email, dest, when, pickup, seats)[3],
                                    FiveChecks(email, dest, when, pickup, seats)[5] >>, 1)
            /\ CreateVerdictPreset(pools, email, when, pickup, now)
                  = FirstFailure(<< FiveChecks(email, dest, when, pickup, seats)[2],
                                    <<pickup \in {"", " "},
                                      "Please select or enter a pickup point.">>,
                                    FiveChecks(email, dest, when, pickup, seats)[5] >>, 1))
    /\ AcceptedPassedChecks

\* C16 witness: a create request has been answered "Please pick a future time."
\* while the host of the stored pool is in cooldown.
C16_PastTimeReportedInCooldown ==
    /\ last = <<"create_pool_ui", TimeMsg>>
    /\ \E p \in pools : ~can_host_create(pools, p.host_email, now)

AirportMsg == "For airport rides, please enter a pickup point."

\* C18: a create request for a destination whose name or address contains "airport",
\* in any letter case, with an empty or blank pickup is never accepted and stores
\* nothing, and is answered with the airport pickup error when a destination is
\* selected and the time is not past; the same request with a pickup given, a time
\* not past and no cooldown is accepted.
C18_AirportNeedsPickup ==
    /\ [](\A email \in Emails, dest \in {"airport", "airport_addr"},
            when \in WhenInputs(now) :
            /\ \A pickup \in {"", " "} :
                  LET verdict == CreateVerdict(pools, email, dest, when, pickup, now)
                  IN /\ verdict # "ok"
                     /\ when >= now => verdict = AirportMsg
            /\ (when >= now /\ can_host_create(pools, email, now))
                  => CreateVerdict(pools, email, dest, when, "gate", now) = "ok")
    /\ [][(last' # last /\ last' = <<"create_pool_ui", AirportMsg>>)
              => pools' = pools /\ members' = members]_vars
    /\ [][\A s \in Sessions :
            (pc[s] = "add_pool" /\ last' = <<"create_pool_ui", "Pool created!">>)
                => \E p \in pools' \ pools :
                      /\ p.host_email = arg[s].email
                      /\ is_user_member(members', p.id, p.host_email)]_vars

\* C18 witness: a create request has just been answered with the airport pickup
\* error and the store is empty.
C18_AirportRequestRefused ==
    /\ last = <<"create_pool_ui", AirportMsg>>
    /\ pools = {}
    /\ members = EmptyMembers

\* the messages create_pool_ui shows for a request it rejects
RejectionMsgs ==
    {"Please search and select a destination.", TimeMsg, AirportMsg, CooldownMsg}

\* C19: a create request rejected by a validation check leaves pools and members
\* as they were: no pool row, no host membership row is written, and add_pool is
\* not called.
C19_RejectedCreateWritesNothing ==
    [][(last' # last /\ last'[1] = "create_pool_ui" /\ last'[2] \in RejectionMsgs)
          => /\ pools' = pools
             /\ members' = members
             /\ \A s \in Sessions : pc'[s] # "add_pool"]_vars

\* C19 witness: a create request has just been rejected for its missing destination
\* while the store holds a pool with its host and a member.
C19_RejectedWithPoolStored ==
    /\ last = <<"create_pool_ui", "Please search and select a destination.">>
    /\ \E p \in pools : Count(p.id) >= 2

\* C20: leave_pool(pool_id, email) removes the membership row (pool_id, email) if
\* there is one and changes nothing else; for a non-member or a pool that does not
\* exist it changes nothing and returns without an error; when the host leaves, the
\* pool row and the other members' rows stay.
C20_LeaveRemovesOneRow ==
    /\ [](\A pid \in PoolIdInputs, e \in Emails :
            LET m == DeleteMember(members, pid, e)
            IN /\ DOMAIN m = DOMAIN members \ {<<pid, e>>}
               /\ \A r \in DOMAIN m : m[r] = members[r]
               /\ <<pid, e>> \notin DOMAIN members => m = members)
    /\ [][(AllIdle /\ pc' = pc /\ now' = now /\ last' = <<"leave_pool", "None">>)
            => /\ pools' = pools
               /\ \E pid \in PoolIdInputs, e \in Emails :
                     /\ DOMAIN members' = DOMAIN members \ {<<pid, e>>}
                     /\ \A r \in DOMAIN members' : members'[r] = members[r]]_vars

\* C20 witness: the host has left a pool: the pool row is in the store without the
\* host's row and with the row of another member.
C20_HostLeftPoolStays ==
    /\ last = <<"leave_pool", "None">>
    /\ \E p \in pools :
          /\ ~is_user_member(members, p.id, p.host_email)
          /\ Count(p.id) >= 1

\* C21: the host stays authorized to delete the pool whatever the membership rows
\* say: a delete_pool call by the host, also after the host's own leave_pool,
\* returns True and removes the pool row and every membership row of the pool; a
\* delete_pool call by a member who is not the host returns False and changes
\* nothing.
C21_HostDeletesAfterLeaving ==
    [][\A s \in Sessions :
          DeleteReturns(s) =>
              LET pid == arg[s].pool_id
                  e == arg[s].email
              IN /\ (\E p \in pools : p.id = pid /\ p.host_email = e)
                      => /\ last' = <<"delete_pool", "True">>
                         /\ pools' = {p \in pools : p.id # pid}
                         /\ DOMAIN members' = {r \in DOMAIN members : r[1] # pid}
                         /\ \A r \in DOMAIN members' : members'[r] = members[r]
                 /\ (is_user_member(members, pid, e)
                        /\ ~\E p \in pools : p.id = pid /\ p.host_email = e)
                      => /\ last' = <<"delete_pool", "False">>
                         /\ pools' = pools
                         /\ members' = members]_vars

\* C21 witness: the host, who holds no membership row of the pool any more, has
\* passed the host check of delete_pool while another member's row is in the pool.
C21_HostWithoutRowDeleting ==
    \E s \in Sessions :
        /\ pc[s] = "delete_exec"
        /\ \E p \in pools :
              /\ p.id = arg[s].pool_id
              /\ p.host_email = arg[s].email
              /\ ~is_user_member(members, p.id, p.host_email)
              /\ Count(p.id) >= 1

\* C22 (as stated): every identity the gate admits, through the Google callback or
\* the manual form, has an email that ends with "@" and the allowed domain; an
\* assertion whose email does not is rejected whatever its hd field says.
C22_AdmittedEmailInDomain ==
    \A s \in Sessions :
        user[s] # NoUser => EndsWith(user[s].email, <<"@">> \o AllowedDomain)

\* C23 (as stated): list_messages(pool_id, limit) returns min(limit, n) of the
\* pool's n messages, oldest first, and they are the most recent ones: every
\* message of the pool that is left out is older than every message returned.
C23_MostRecentReturned ==
    [][\A s \in Sessions :
          (pc[s] = "list_messages" /\ pc'[s] = "idle") =>
              LET all == {m \in Rows(messages) : m.pool_id = arg[s].pool_id}
                  n == Cardinality(all)
                  res == last'[2]
              IN /\ Len(res) = (IF arg[s].limit < n THEN arg[s].limit ELSE n)
                 /\ Rows(res) \subseteq all
                 /\ \A i, j \in DOMAIN res :
                        i < j => res[i].created_at < res[j].created_at
                 /\ \A m \in all \ Rows(res) :
                        \A i \in DOMAIN res : m.created_at < res[i].created_at]_vars

\* C24: the members list and the chat of a pool are shown to a user, and a chat
\* message of the user is handed to add_message, only if the user holds a
\* membership row of the pool or is its host: whoever is not the host and holds no
\* row (any more) has no access, the host has it with or without a row.
C24_ChatForMembersAndHost ==
    /\ [](\A p \in pools, e \in Emails :
            /\ already(pools, members, p.id, e)
                  <=> (<<p.id, e>> \in DOMAIN members \/ p.host_email = e)
            /\ already(pools, members, p.id, p.host_email)
            /\ (e # p.host_email /\ <<p.id, e>> \notin DOMAIN members)
                  => ~already(pools, members, p.id, e))
    /\ [][\A s \in Sessions :
            (pc[s] = "idle" /\ pc'[s] = "add_message") =>
                \/ <<arg'[s].pool_id, arg'[s].email>> \in DOMAIN members'
                \/ \E p \in pools' :
                      p.id = arg'[s].pool_id /\ p.host_email = arg'[s].email]_vars

\* C24 witness: the message stored last was posted by the host of a pool who holds
\* no membership row of it, the pool having a member.
C24_HostPostedAfterLeaving ==
    /\ last = <<"add_message", "None">>
    /\ messages # <<>>
    /\ \E p \in pools :
          /\ messages[Len(messages)].pool_id = p.id
          /\ messages[Len(messages)].sender_email = p.host_email
          /\ ~is_user_member(members, p.id, p.host_email)
          /\ Count(p.id) >= 1

\* C25 (as stated): the message log is append-only. A chat form sent with an empty
\* or blank text stores nothing, a post with a text that is not blank adds exactly
\* one message, with that text, and no step of any call changes or removes a
\* message that is stored.
C25_AppendOnlyLog ==
    /\ [][(last' # last /\ last' = <<"pools_list_ui", "nothing sent">>)
              => messages' = messages]_vars
    /\ [][\A s \in Sessions :
            (pc[s] = "add_message" /\ pc'[s] = "idle") =>
                /\ Len(messages') = Len(messages) + 1
                /\ messages'[Len(messages')].content = arg[s].text
                /\ messages'[Len(messages')].pool_id = arg[s].pool_id]_vars
    /\ [][/\ Len(messages') >= Len(messages)
          /\ SubSeq(messages', 1, Len(messages)) = messages]_vars

\* C26 (as stated): when the link names a pool of the live set, that pool is the
\* first of the list pools_list_ui renders, whatever the order by departure time
\* or distance and whatever filter is on.
C26_LinkedPoolFirst ==
    [][\A s \in Sessions :
          (pc[s] = "list_sort" /\ pc'[s] = "idle" /\ last'[2].raised = ""
              /\ arg[s].pool_id \in arg[s].ids)
              => /\ last'[2].shown # <<>>
                 /\ last'[2].shown[1] = arg[s].pool_id]_vars

\* C27 (as stated): with a search target, the listing completes without an error, the
\* list is in ascending order of distance, and every pool whose coordinates are
\* missing comes after all pools that have coordinates.
C27_MissingCoordinatesLast ==
    [][\A s \in Sessions :
          (pc[s] = "list_sort" /\ pc'[s] = "idle" /\ arg[s].target # {}
              /\ Null \notin arg[s].target)
              => /\ last'[2].raised = ""
                 /\ \A i, j \in DOMAIN last'[2].shown :
                      LET p == CHOOSE q \in pools : q.id = last'[2].shown[i]
                          r == CHOOSE q \in pools : q.id = last'[2].shown[j]
                      IN (p.lat = Null /\ r.lat # Null) => j < i]_vars

\* C28 (as stated): a write that fails is not passed over in silence. join_pool
\* returns "Joined" only with the membership row stored, add_pool completes only
\* with the pool row and the host's membership row stored, and leave_pool and
\* add_message return normally only when their delete or insert took effect.
C28_FailedWritesSurface ==
    [][\A s \in Sessions :
          /\ (JoinReturns(s) /\ last' = <<"join_pool", "Joined">>)
                => is_user_member(members', arg[s].pool_id, arg[s].email)
          /\ (pc[s] \in {"add_pool", "sb_add_member"} /\ pc'[s] = "idle"
                /\ last' = <<"create_pool_ui", "Pool created!">>)
                => \E p \in pools' :
                      /\ p.host_email = arg[s].email
                      /\ p.when_iso = arg[s].when
                      /\ is_user_member(members', p.id, p.host_email)
          /\ (pc[s] = "sb_leave" /\ pc'[s] = "idle" /\ last' = <<"leave_pool", "None">>)
                => ~is_user_member(members', arg[s].pool_id, arg[s].email)
          /\ (pc[s] = "add_message" /\ pc'[s] = "idle"
                /\ last' = <<"add_message", "None">>)
                => /\ Len(messages') = Len(messages) + 1
                   /\ messages'[Len(messages')].content = arg[s].text]_vars

\* C29 (as stated): every pool gets an id of its own at creation: create requests
\* of different hosts that pass validation at the same instant all succeed, each
\* adding a pool whose id no other pool of the store has.
C29_SimultaneousCreationsSucceed ==
    /\ [](\A p, q \in pools : p.id = q.id => p = q)
    /\ [][\A s \in Sessions :
            (pc[s] = "add_pool" /\ pc'[s] = "idle") =>
                /\ last' = <<"create_pool_ui", "Pool created!">>
                /\ \E p \in pools' \ pools :
                      /\ p.host_email = arg[s].email
                      /\ p.id \notin PoolIds(pools)]_vars

\* C30 (as stated): two join_pool calls for one (pool_id, email) that both pass the
\* already-joined check before either inserts both end with "Joined" or "Already
\* joined", none with an error, and exactly one membership row is left.
C30_RacingJoinsBothSucceed ==
    /\ [](\A r \in DOMAIN members : members[r] = 1)
    /\ [][\A s \in Sessions :
            (pc[s] = "join_insert" /\ pc'[s] = "idle") =>
                \/ last' = <<"join_pool", "Joined">>
                \/ last' = <<"join_pool", "Already joined">>]_vars

\* C31 (as stated): two creation requests of one host that overlap persist at most
\* one pool; the store never holds two pools of one host_email whose created_at
\* values are less than 15 minutes apart.
C31_OnePoolPerHostPerWindow ==
    \A p \in pools : \A q \in pools :
        (p # q /\ p.host_email = q.host_email /\ p.created_at <= q.created_at) =>
            q.created_at - p.created_at >= COOLDOWN_MINUTES

\* the membership rows of pool p that are not the host's
NonHostRows(p) == {r \in MemberRows(members, p.id) : r[2] # p.host_email}

\* C32 (as stated): the host occupies one seat of the pool whether or not the host
\* holds a membership row; the non-host members of a pool never number more than
\* seat_capacity - 1.
C32_HostSeatReserved ==
    \A p \in pools : SumCopies(members, NonHostRows(p)) <= p.seats - 1

\* C33 (as stated): every membership row refers to a pool that exists, also when
\* join_pool interleaves with delete_pool or cleanup_expired_pools on the pool.
C33_NoMembershipWithoutPool ==
    \A r \in DOMAIN members : PoolRows(pools, r[1]) # {}

\* the store a run of cleanup_expired_pools at clock reading t leaves behind
CleanedAt(ps, m, t) ==
    [pools |-> DeletePools(ps, ExpiredIds(ps, t)),
     members |-> DeleteMembersOf(m, ExpiredIds(ps, t))]

\* C34: cleanup_expired_pools is idempotent and total: it returns without an error,
\* a second run at the same reading of the clock would leave the store as the
\* first left it, and a run over a store with no pool, or with no pool whose
\* departure has passed, changes nothing.
C34_CleanupIdempotent ==
    [][\A s \in Sessions :
          (pc[s] = "cleanup_delete" /\ pc'[s] = "idle") =>
              /\ last' = <<"cleanup_expired_pools", "None">>
              /\ CleanedAt(pools', members', now') =
                    [pools |-> pools', members |-> members']
              /\ (\A p \in pools : p.when_iso >= now) =>
                    (pools' = pools /\ members' = members)]_vars

\* C34 witness: a run of cleanup_expired_pools that follows another directly is
\* about to commit, over a store whose only pool has not departed and holds the
\* rows of its host and of a member who joined.
C34_SecondRunOverLivePool ==
    \E s \in Sessions :
        /\ pc[s] = "cleanup_delete"
        /\ arg[s].ids = {}
        /\ last = <<"cleanup_expired_pools", "None">>
        /\ \E p \in pools : p.when_iso >= now /\ Count(p.id) >= 2

\* a statement of add_pool, join_pool, add_message or list_future_pools runs in
\* session s in this step
EngineStepKeepingRows(s) ==
    /\ pc[s] \in {"add_pool", "join_check", "join_read_pool", "join_count",
                  "join_insert", "add_message", "list_future_pools"}
    /\ pc'[s] # pc[s]

\* leave_pool runs in this step
LeaveStep ==
    /\ AllIdle
    /\ now' = now
    /\ pc' = pc
    /\ last' = <<"leave_pool", "None">>

\* the pool session s called join_pool on is stored and has departed
CalledPoolHasDeparted(s) ==
    \E p \in PoolRows(pools, arg[s].pool_id) : p.when_iso < now

\* C35 (as stated): add_pool, join_pool, leave_pool, add_message and
\* list_future_pools never remove a pool row; a pool that has departed keeps its
\* memberships through each of them, and join_pool on it returns RidePassed
\* without adding a member.
C35_DepartedPoolKeptUntilListing ==
    [][/\ \A s \in Sessions :
             (EngineStepKeepingRows(s) \/ LeaveStep) =>
                 /\ pools \subseteq pools'
                 /\ \A r \in DOMAIN members :
                       (\E p \in PoolRows(pools, r[1]) : p.when_iso < now)
                           => r \in DOMAIN members'
       /\ \A s \in Sessions :
             (JoinReturns(s) /\ CalledPoolHasDeparted(s)) =>
                 /\ last' = <<"join_pool", "Ride time has passed">>
                 /\ members' = members]_vars

\* C35 (amended): add_pool, join_pool, leave_pool, add_message and list_future_pools
\* never remove a pool row; add_pool, join_pool, add_message and list_future_pools
\* remove no membership row and leave_pool removes none but the caller's; join_pool
\* on a pool that has departed adds no member and returns RidePassed to a caller
\* who holds no membership row of it, AlreadyJoined to one who does.
C35_DepartedPoolKeptButLeavable ==
    [][/\ \A s \in Sessions :
             EngineStepKeepingRows(s) =>
                 /\ pools \subseteq pools'
                 /\ \A r \in DOMAIN members : r \in DOMAIN members'
       /\ LeaveStep =>
             /\ pools' = pools
             /\ Cardinality(DOMAIN members \ DOMAIN members') <= 1
             /\ DOMAIN members' \subseteq DOMAIN members
       /\ \A s \in Sessions :
             (JoinReturns(s) /\ CalledPoolHasDeparted(s)) =>
                 /\ members' = members
                 /\ last' = <<"join_pool",
                              IF is_user_member(members, arg[s].pool_id, arg[s].email)
                              THEN "Already joined" ELSE "Ride time has passed">>]_vars

\* C35 witness: join_pool has just refused a pool that has departed, and the pool
\* is still stored with the rows of its host and of a member who joined.
C35_DepartedPoolRefusedAndStored ==
    /\ last = <<"join_pool", "Ride time has passed">>
    /\ \E p \in pools : p.when_iso < now /\ Count(p.id) >= 2

\* C36: on SQLite the engine of src/poolpreset.py is that of src/pool.py: in every
\* state the calls of src/pool.py reach, can_host_create and list_future_pools of
\* the two give the same answer, and every call of add_pool, join_pool, leave_pool,
\* delete_pool and cleanup_expired_pools of src/pool.py returns what the function
\* of src/poolpreset.py returns on the same tables, clock and arguments, and
\* leaves the tables that function leaves.
C36_VariantsAgree ==
    [][/\ \A e \in Emails :
             can_host_create(pools, e, now) = can_host_create_preset(pools, e, now)
       /\ list_future_pools(pools, now) = list_future_pools_preset(pools, now)
       /\ \A s \in Sessions :
             (pc[s] = "add_pool" /\ pc'[s] = "idle") =>
                 LET r == add_pool_preset(pools, members, NewPool(arg[s], now))
                 IN /\ pools' = r.pools
                    /\ members' = r.members
                    /\ last' = <<"create_pool_ui",
                                 IF r.raised THEN "IntegrityError" ELSE "Pool created!">>
       /\ \A s \in Sessions :
             JoinReturns(s) =>
                 LET r == join_pool_preset(pools, members, arg[s].pool_id,
                                           arg[s].email, now)
                 IN /\ pools' = pools
                    /\ members' = r.members
                    /\ last' = <<"join_pool", r.msg>>
       /\ LeaveStep =>
             /\ pools' = pools
             /\ \E e \in Emails, pid \in PoolIdInputs :
                   members' = leave_pool_preset(members, pid, e)
       /\ \A s \in Sessions :
             DeleteReturns(s) =>
                 LET r == delete_pool_preset(pools, members, arg[s].pool_id,
                                             arg[s].email)
                 IN /\ pools' = r.pools
                    /\ members' = r.members
                    /\ last' = <<"delete_pool", IF r.ok THEN "True" ELSE "False">>
       /\ \A s \in Sessions :
             (pc[s] = "cleanup_delete" /\ pc'[s] = "idle") =>
                 LET r == cleanup_expired_pools_preset(pools, members, now)
                 IN /\ pools' = r.pools
                    /\ members' = r.members
                    /\ last' = <<"cleanup_expired_pools", "None">>]_vars

\* C36 witness: join_pool has answered a member of a pool that has departed, the
\* pool still stored with the rows of its host and of that member.
C36_MemberOfDepartedPoolAnswered ==
    /\ last = <<"join_pool", "Already joined">>
    /\ \E p \in pools :
          /\ p.when_iso < now
          /\ \E r \in MemberRows(members, p.id) : r[2] # p.host_email

\* C37: the spam guard fails open: when the query for the host's pools fails,
\* can_host_create returns true and the creation goes on to add_pool; when it does
\* not fail, the creation is refused exactly if the host has a pool whose
\* created_at parses and lies within the last 15 minutes, a created_at that does
\* not parse never counting.
C37_SpamGuardFailsOpen ==
    [][\A s \in Sessions :
          (pc[s] = "can_host_create" /\ pc'[s] # pc[s]) =>
              /\ arg[s].fails => pc'[s] = "add_pool"
              /\ ~arg[s].fails =>
                    (pc'[s] = "idle" <=>
                        \E p \in pools :
                            /\ p.host_email = arg[s].email
                            /\ p.created_at # BadStamp
                            /\ now - p.created_at <= COOLDOWN_MINUTES)
              /\ pc'[s] = "idle" =>
                    last' = <<"create_pool_ui",
                              "You can only create one pool every 15 minutes to prevent spam.">>]_vars

\* C37 witness: a create request whose guard query is going to fail stands before
\* can_host_create while its host has a pool created within the last 15 minutes.
C37_QueryFailsDuringCooldown ==
    \E s \in Sessions :
        /\ pc[s] = "can_host_create"
        /\ arg[s].fails
        /\ \E p \in pools :
              /\ p.host_email = arg[s].email
              /\ p.created_at # BadStamp
              /\ now - p.created_at <= COOLDOWN_MINUTES
        /\ \E p \in pools : p.created_at = BadStamp

\* the departure time of the stored pool of id pid
WhenOf(pid) == (CHOOSE p \in pools : p.id = pid).when_iso

====
